---- MODULE Spec2Model ----
(***************************************************************************)
(* Upload orchestration engine of telegram_uploader_gui_python.py:         *)
(* UploadWorker.run, its process_batch closure, send_media_group,          *)
(* send_single_by_type, request_with_retries, the progress record and the  *)
(* post-upload action, together with the environment they run against     *)
(* (the remote endpoint, the stop signal, the folder on disk).             *)
(***************************************************************************)
EXTENDS Integers, Sequences, FiniteSets, TLC

\* ------------------------------------------------------------- bounds
FolderSize == 2        \* media files in the session folder, named 1..FolderSize
MaxWorkers == 2        \* largest worker count the GUI asks for in the model
MaxEnvChanges == 1     \* external truncations / removals of files in the folder
MaxRetryAfter == 1     \* largest retry_after the remote sends with a 429
MaxFiles == 23         \* largest folder of the album-mode runs
MaxSuffix == 2         \* largest suffix of a file already in .uploaded
MaxCounted == 4        \* largest folder of the runs that count file by file

\* -------------------------------------------------- program constants
MAX_RETRIES == 6
GROUP_RETRIES == 2
GROUP_SIZE == 5
MaxFolders == 3    \* folders the user can select
MaxSending == 2    \* UploadWorker threads alive at once
WORKERS_CEILING == 10

Workers == 1..MaxWorkers

Min(a, b) == IF a < b THEN a ELSE b
Max(a, b) == IF a > b THEN a ELSE b

\* is_image / is_video: the extension decides; odd names carry an image
\* extension, even names a video extension, and the name 0 an extension of
\* neither set.
is_image(f) == f % 2 = 1
is_video(f) == f % 2 = 0 /\ f # 0

RECURSIVE SortedSeq(_)
\* sorted(self.folder.iterdir()) restricted to a set of names
SortedSeq(S) ==
    IF S = {} THEN <<>>
    ELSE LET m == CHOOSE x \in S : \A y \in S : x <= y
         IN <<m>> \o SortedSeq(S \ {m})

SeqSet(s) == {s[k] : k \in 1..Len(s)}

RECURSIVE Filter(_, _)
\* [p for p in s if p not in excl]
Filter(s, excl) ==
    IF s = <<>> THEN <<>>
    ELSE IF Head(s) \in excl THEN Filter(Tail(s), excl)
         ELSE <<Head(s)>> \o Filter(Tail(s), excl)

VARIABLES
    as_document, no_album, resume, delete_after_upload, req_workers,
    fault,             \* "none" | "no_requests" (requests is None) |
                       \* "scan_error" (the folder cannot be listed)
    remote_mode,       \* how the remote endpoint answers in this behaviour
    folder,            \* name -> "ok" | "empty" | "gone" | "moved" |
                       \* "unreadable" (stat succeeds, open fails)
    env_changes,       \* external changes of the folder so far
    progress_file,     \* [exists, uploaded]: .upload_progress.json
    stop_event,
    run_no,            \* 1 (first run on the folder) or 2 (the run after it)
    cpc,               \* position of UploadWorker.run
    max_workers,       \* self.max_workers
    all_media, uploaded, remaining, total, batches,
    next_batch,        \* head of the executor's work queue
    fut_state,         \* batch -> "queued" | "running" | "done"
    fut_result,        \* batch -> names returned by process_batch
    yielded,           \* futures as_completed has handed out
    cur,               \* future the coordinating loop holds
    uploaded_files, files_sent, files_sent_shared,
    wk,                \* worker -> position and locals of process_batch
    delivered,         \* name -> times the remote accepted it (2 = more than once)
    via,               \* name -> operations through which it was accepted
    done_calls,        \* arguments of done_callback in this run
    single_tried,      \* names handed to send_single_by_type in this run
    group_failed,      \* batches whose grouped request raised
    stop_early,        \* stop was set while a planned batch was unfinished
    prev_end,          \* how the previous run ended: "none" | "done" | "killed"
    quarantine,        \* names of the files in .uploaded
    post,              \* worker -> position and locals of _post_upload_action
    overwritten,       \* names in .uploaded that a move has replaced
    ops,               \* name -> send operations invoked for it in this run
    session,           \* self.session: 0 (None) or the Session object's id
    last_event,        \* the latest call of progress_callback in this run
    counter_lock,      \* holder of self._files_sent_lock, 0 when free
    inc,               \* worker -> position in the counter update
    events,            \* sent values of the per-file progress events
    increments,        \* self._files_sent += 1 statements executed
    multi_mode,        \* App.multi_mode
    remaining_folders, \* App.remaining_folders: the folders still to upload
    btn_start,         \* the Start Upload button is enabled
    sending            \* the folders of the UploadWorker threads that were
                       \* started and have not called done_callback yet

vars == <<as_document, no_album, resume, delete_after_upload, req_workers,
          fault, remote_mode, folder, env_changes, progress_file, stop_event, run_no,
          cpc, max_workers, all_media, uploaded, remaining, total, batches,
          next_batch, fut_state, fut_result, yielded, cur, uploaded_files,
          files_sent, files_sent_shared, wk, delivered, via, done_calls,
          single_tried, group_failed, stop_early, prev_end,
          quarantine, post, overwritten, ops, session, last_event,
          counter_lock, inc, events, increments,
          multi_mode, remaining_folders, btn_start, sending>>

options == <<as_document, no_album, resume, delete_after_upload, req_workers,
             fault, remote_mode, prev_end>>
planvars == <<max_workers, all_media, uploaded, remaining, total, batches>>
remotevars == <<delivered, via>>
disk == <<folder, env_changes, progress_file>>
futures == <<next_batch, fut_state, fut_result>>
coord == <<cpc, yielded, cur, uploaded_files, files_sent, done_calls>>
history == <<single_tried, group_failed, stop_early>>
quarantinevars == <<quarantine, post, overwritten>>
countervars == <<counter_lock, inc, events, increments>>
appvars == <<multi_mode, remaining_folders, btn_start, sending>>
sidevars == <<quarantinevars, countervars, appvars>>
observed == <<ops, session, last_event>>

\* A name in .uploaded or in the folder, for the post-upload action: the
\* stem as the sequence of its "_"-separated parts, <<0>> for "a.jpg",
\* <<0, 1>> for "a_1.jpg", <<0, 1, 1>> for "a_1_1.jpg".
QNames == {<<0>>} \cup {<<0, k>> : k \in 1..MaxSuffix}

IdlePost == [pc |-> "idle", file |-> <<>>, i |-> 0, target |-> <<>>]

\* the media files of the session folder, named 1..n
Names == DOMAIN folder

\* no call of progress_callback yet
NoEvent == [by |-> "none", sent |-> 0, total |-> 0]

IdleInc == [pc |-> "ready", b |-> 0, tmp |-> 0, current |-> 0]

IdleWorker ==
    [pc |-> "idle", b |-> 0, i |-> 0, op |-> "none", attempt |-> 0,
     sess |-> 0,       \* the Session object the call in flight posts through
     sleep_left |-> 0, only429 |-> TRUE, last |-> "none",
     files_processed |-> <<>>, valid |-> <<>>,
     wait_w |-> 0,     \* retry_after of the last 429 of the call in flight
     slept |-> 0,      \* one-second sleeps done since that 429
     backoffs |-> 0,   \* time.sleep(backoff) calls of the call in flight
     offset |-> 0,     \* position of the payload's open file object
     sent_from |-> 0]  \* position the last attempt read the payload from

\* .upload_progress.json: whether the file exists, and its text as a
\* sequence of JSON tokens
NoRecord == [exists |-> FALSE, text |-> <<>>]

\* ---------------------------------------------------------- pure code
\* a worker count that is clamped but never forced to 1
EffectiveWorkersNotForced(req, noalbum, asdoc) ==
    Max(1, Min(WORKERS_CEILING, req))

\* a batch plan that drops the trailing partial group
PlanBatchesFloor(rem, noalbum) ==
    IF noalbum
    THEN [k \in 1..Len(rem) |-> <<rem[k]>>]
    ELSE [k \in 1..(Len(rem) \div GROUP_SIZE) |->
            SubSeq(rem, (k - 1) * GROUP_SIZE + 1, k * GROUP_SIZE)]

\* __init__, lines 347-350
EffectiveWorkers(req, noalbum, asdoc) ==
    IF ~noalbum /\ ~asdoc THEN 1 ELSE Max(1, Min(WORKERS_CEILING, req))

\* run, lines 800-805
PlanBatches(rem, noalbum) ==
    IF noalbum
    THEN [k \in 1..Len(rem) |-> <<rem[k]>>]
    ELSE [k \in 1..((Len(rem) + GROUP_SIZE - 1) \div GROUP_SIZE) |->
            SubSeq(rem, (k - 1) * GROUP_SIZE + 1, Min(k * GROUP_SIZE, Len(rem)))]

\* the JSON string of a file name
Quoted(n) == ToString(n)

RECURSIVE Items(_)
\* json.dumps of a list: its elements, comma-separated
Items(names) ==
    IF names = <<>> THEN <<>>
    ELSE IF Len(names) = 1 THEN <<Quoted(Head(names))>>
    ELSE <<Quoted(Head(names)), ",">> \o Items(Tail(names))

\* save_progress, line 415: json.dumps({'uploaded': uploaded})
json_dumps(names) == <<"{\"uploaded\": [">> \o Items(names) \o <<"]}">>

\* load_progress, lines 408-409: json.loads(text) and j.get('uploaded', [])
\* for a text of the shape save_progress writes; ok is FALSE for any other
\* text
json_loads(text) ==
    LET n == Len(text)
        inner == SubSeq(text, 2, n - 1)
        wellformed ==
            /\ n >= 2
            /\ text[1] = "{\"uploaded\": [" /\ text[n] = "]}"
            /\ Len(inner) = 0 \/ Len(inner) % 2 = 1
            /\ \A k \in 1..Len(inner) :
                  IF k % 2 = 0 THEN inner[k] = ","
                  ELSE \E f \in Names : Quoted(f) = inner[k]
    IN IF wellformed
       THEN [ok |-> TRUE, list |-> TRUE,
             uploaded |-> [k \in 1..((Len(inner) + 1) \div 2) |->
                             CHOOSE f \in Names : Quoted(f) = inner[2 * k - 1]]]
       ELSE IF text = <<"{\"uploaded\": null}">>
       THEN \* an object whose 'uploaded' is null: get returns None
            [ok |-> TRUE, list |-> FALSE, uploaded |-> <<>>]
       ELSE [ok |-> FALSE, list |-> TRUE, uploaded |-> <<>>]

\* a load_progress that finds nothing
load_progress_nothing(pf) == <<>>

\* load_progress, lines 404-411
load_progress(pf) ==
    IF ~pf.exists THEN <<>>
    ELSE LET j == json_loads(pf.text)
         IN IF j.ok THEN j.uploaded ELSE <<>>

\* load_progress, line 409, and run, line 793: load_progress returns the
\* value of 'uploaded' as it is, here None, and len(uploaded) raises
LoadedNone(pf) ==
    /\ pf.exists
    /\ json_loads(pf.text).ok /\ ~json_loads(pf.text).list

\* a run that reads the record whether or not resume is set
LoadedAlways(res, pf) == load_progress(pf)

\* run, lines 790-792: uploaded = [], replaced by load_progress() when
\* resume is set
Loaded(res, pf) == IF res THEN load_progress(pf) ELSE <<>>

\* save_progress, lines 413-417
save_progress(names) == [exists |-> TRUE, text |-> json_dumps(names)]

\* what iterdir() can list: a regular file with content ("ok", or
\* "unreadable" when it cannot be opened), a regular file of zero bytes, a
\* directory, an entry that is gone when looked at, a regular file that
\* goes away between is_file() and stat(), and an entry whose stat() is
\* denied
Entries ==
    {"ok", "unreadable", "empty", "dir", "gone", "vanishing", "denied"}

\* get_media_files, line 422: p.is_file() is S_ISREG of p.stat(), and
\* False when that stat fails with ENOENT, ENOTDIR, EBADF or ELOOP
is_file(st) == st \in {"ok", "unreadable", "empty", "vanishing"}

\* get_media_files, line 422: p.is_file() passes on every other OSError of
\* its stat (EACCES), outside the try of lines 423-430
is_file_raises(st) == st = "denied"

\* get_media_files, lines 423-430: p.stat().st_size > 0, where a failing
\* stat is caught and the file skipped
SizePositive(st) == st \in {"ok", "unreadable"}

\* get_media_files, lines 419-431: the list an uninterrupted scan returns
get_media_files(fd) ==
    SortedSeq({f \in DOMAIN fd :
                 /\ is_file(fd[f])
                 /\ (is_image(f) \/ is_video(f))
                 /\ SizePositive(fd[f])})

\* get_media_files, lines 421-422: the scan ends with the exception of
\* is_file()
ScanRaises(fd) == \E f \in DOMAIN fd : is_file_raises(fd[f])

\* a retry ceiling that ignores the per-call override of send_media_group
RetryLimitDefault(op) == MAX_RETRIES

\* request_with_retries, line 458, and send_media_group, line 687
RetryLimit(op) == IF op = "group" THEN GROUP_RETRIES ELSE MAX_RETRIES

\* _post_upload_action, lines 740-769
post_upload_action(fd, f, del) ==
    IF del /\ fd[f] \in {"ok", "empty", "unreadable"} THEN [fd EXCEPT ![f] = "moved"] ELSE fd

RECURSIVE PostAll(_, _, _)
PostAll(fd, s, del) ==
    IF s = <<>> THEN fd
    ELSE PostAll(post_upload_action(fd, Head(s), del), Tail(s), del)

\* ------------------------------------------------------------ remote
\* Answers the remote can give to one request: "ok" (accepted), "429" (too
\* many requests, with retry_after), "429_no_wait" (without), "error" (any
\* other {ok: false}), "network" (timeout or connection error, nothing
\* accepted), "raw" (a body that is no JSON; the Bot API answers in JSON, so
\* only mode "any_raw" has it). Mode "fail" is a remote that refuses or
\* drops every request, mode "limit" one that rate-limits every request.
Responses(mode, op) ==
    CASE mode = "accept" -> {"ok"}
      [] mode = "reject_video" ->
            IF op = "video" THEN {"error"}
            ELSE IF op = "group" THEN {"ok", "error"}
            ELSE {"ok"}
      [] mode = "any_raw" ->
            {"ok", "raw", "429", "429_no_wait", "error", "network"}
      [] mode = "fail" -> {"error", "network"}
      [] mode = "limit" -> {"429", "429_no_wait"}
      [] OTHER -> {"ok", "429", "429_no_wait", "error", "network"}

Accept(d, v, files, op) ==
    [dl |-> [f \in Names |-> IF f \in files THEN Min(d[f] + 1, 2) ELSE d[f]],
     vi |-> [f \in Names |-> IF f \in files THEN v[f] \cup {op} ELSE v[f]]]

\* --------------------------------------------------------------- Init
\* no thread is updating the counter
NoCounter ==
    /\ counter_lock = 0
    /\ inc = [w \in Workers |-> IdleInc]
    /\ events = <<>>
    /\ increments = 0

\* the specifications of one UploadWorker leave the window aside: its
\* fields stay as start_upload left them when it started that worker
OneWorker ==
    /\ multi_mode = FALSE
    /\ remaining_folders = <<>>
    /\ btn_start = FALSE
    /\ sending = <<1>>

Init ==
    /\ as_document \in BOOLEAN
    /\ no_album \in BOOLEAN
    /\ resume \in BOOLEAN
    /\ delete_after_upload \in BOOLEAN
    /\ req_workers \in 1..MaxWorkers
    /\ fault \in {"none", "no_requests", "scan_error"}
    /\ remote_mode \in {"accept", "reject_video", "any"}
    /\ folder = [f \in 1..FolderSize |-> "ok"]
    /\ env_changes = 0
    /\ progress_file = NoRecord
    /\ stop_event = FALSE
    /\ run_no = 1
    /\ cpc = "start"
    /\ max_workers = EffectiveWorkers(req_workers, no_album, as_document)
    /\ all_media = <<>> /\ uploaded = <<>> /\ remaining = <<>>
    /\ total = 0 /\ batches = <<>>
    /\ next_batch = 1
    /\ fut_state = <<>> /\ fut_result = <<>>
    /\ yielded = {} /\ cur = 0
    /\ uploaded_files = <<>> /\ files_sent = 0 /\ files_sent_shared = 0
    /\ wk = [w \in Workers |-> IdleWorker]
    /\ delivered = [f \in Names |-> 0]
    /\ via = [f \in Names |-> {}]
    /\ done_calls = <<>>
    /\ single_tried = {}
    /\ group_failed = {}
    /\ stop_early = FALSE
    /\ prev_end = "none"
    /\ quarantine = {}
    /\ post = [w \in Workers |-> IdlePost]
    /\ overwritten = {}
    /\ ops = [f \in Names |-> <<>>]
    /\ session = 0
    /\ last_event = NoEvent
    /\ NoCounter
    /\ OneWorker

\* ------------------------------------------------- UploadWorker.run
Active == cpc \in {"loop", "got", "shutdown"}
AllBatches == 1..Len(batches)

\* init_session, lines 439-446: the Session object the run posts through
\* from now on
init_session(sess) == 1

\* run, lines 774, 787, 945 and 948: self.done_callback(success)
done_callback(calls, success) == Append(calls, success)

\* run, lines 772-812 and 902-909: scan, resume, plan, submit every batch;
\* without the requests library (lines 772-775), with a folder that cannot
\* be listed (lines 779 and 946-948), without media (lines 780-788) or
\* with a loaded value that has no length (lines 793 and 946-948) the run
\* ends at once
RunStart ==
    /\ cpc = "start"
    /\ LET media == get_media_files(folder)
           upl == Loaded(resume, progress_file)
           rem == Filter(media, SeqSet(upl))
           bs == PlanBatches(rem, no_album)
       IN IF \/ fault # "none" \/ ScanRaises(folder) \/ media = <<>>
             \/ (resume /\ LoadedNone(progress_file))
          THEN /\ done_calls' = done_callback(done_calls, FALSE)
               /\ cpc' = "done"
               /\ UNCHANGED <<planvars, futures, files_sent,
                              files_sent_shared, stop_early, session>>
          ELSE /\ all_media' = media
               /\ uploaded' = upl
               /\ remaining' = rem
               /\ total' = Len(media)
               /\ batches' = bs
               /\ next_batch' = 1
               /\ fut_state' = [b \in 1..Len(bs) |-> "queued"]
               /\ fut_result' = [b \in 1..Len(bs) |-> <<>>]
               /\ files_sent' = Len(upl)
               /\ files_sent_shared' = Len(upl)
               /\ stop_early' = (stop_event /\ Len(bs) > 0)
               /\ session' = init_session(session)
               /\ cpc' = "loop"
               /\ UNCHANGED <<max_workers, done_calls>>
    /\ UNCHANGED <<options, sidevars, ops, last_event, disk, stop_event, run_no, yielded, cur,
                   uploaded_files, wk, remotevars, single_tried, group_failed>>

\* a work queue that hands out its head without removing it
DequeueNone(n) == n

\* ThreadPoolExecutor, lines 906-909: every batch is submitted once, and a
\* pool thread that takes a work item removes it from the queue
Dequeue(n) == n + 1

\* a pool thread takes the next queued batch (idle threads are
\* interchangeable: the lowest one takes it); process_batch, lines 814-828
TakeBatch(w) ==
    /\ Active
    /\ w <= max_workers
    /\ wk[w].pc = "idle"
    /\ \A v \in 1..(w - 1) : wk[v].pc # "idle"
    /\ next_batch <= Len(batches)
    /\ next_batch' = Dequeue(next_batch)
    /\ IF stop_event
       THEN /\ fut_state' = [fut_state EXCEPT ![next_batch] = "done"]
            /\ fut_result' = [fut_result EXCEPT ![next_batch] = <<>>]
            /\ UNCHANGED wk
       ELSE /\ fut_state' = [fut_state EXCEPT ![next_batch] = "running"]
            /\ UNCHANGED fut_result
            /\ wk' = [wk EXCEPT ![w] =
                        [IdleWorker EXCEPT
                           !.pc = IF Len(batches[next_batch]) > 1 /\ ~as_document
                                  THEN "album" ELSE "single",
                           !.b = next_batch, !.i = 1]]
    /\ UNCHANGED <<options, sidevars, observed, disk, stop_event, run_no, planvars, coord,
                   files_sent_shared, remotevars, history>>

\* an album that lists its files last to first
MediaOrderReversed(valid) ==
    [k \in 1..Len(valid) |-> valid[Len(valid) + 1 - k]]

\* send_media_group, lines 661-669: the media array and the attachments
\* file0, file1, ... follow valid_paths
MediaOrder(valid) == valid

\* send_media_group, lines 628-682: keep the non-empty files, open them
SendMediaGroup(w) ==
    /\ Active
    /\ wk[w].pc = "album"
    /\ LET valid == Filter(batches[wk[w].b],
                           {f \in Names : folder[f] \notin {"ok", "unreadable"}})
       IN IF valid = <<>>
          THEN \* (None, []): process_batch falls back to singles, line 846
               /\ wk' = [wk EXCEPT ![w].pc = "single", ![w].i = 1]
               /\ UNCHANGED <<ops, fut_state, fut_result>>
          ELSE IF \E f \in SeqSet(valid) : folder[f] = "unreadable"
          THEN \* lines 670-680 and 897-899: open fails, send_media_group
               \* raises and the batch returns []
               /\ fut_state' = [fut_state EXCEPT ![wk[w].b] = "done"]
               /\ fut_result' = [fut_result EXCEPT ![wk[w].b] = <<>>]
               /\ wk' = [wk EXCEPT ![w] = IdleWorker]
               /\ UNCHANGED ops
          ELSE /\ wk' = [wk EXCEPT ![w].pc = "request", ![w].op = "group",
                                   ![w].valid = MediaOrder(valid),
                                   ![w].sess = session]
               /\ ops' = [f \in Names |->
                            IF f \in SeqSet(valid) THEN Append(ops[f], "group")
                            ELSE ops[f]]
               /\ UNCHANGED <<fut_state, fut_result>>
    /\ UNCHANGED <<options, sidevars, session, last_event, disk, stop_event,
                   run_no, planvars, next_batch, coord, files_sent_shared,
                   remotevars, history>>

\* a dispatch by media kind that ignores the document-only mode
SingleOpByKind(f, asdoc) == IF is_image(f) THEN "photo" ELSE "video"

\* send_single_by_type, lines 704-710: the operation a file is sent through
SingleOp(f, asdoc) ==
    IF asdoc THEN "document" ELSE IF is_image(f) THEN "photo" ELSE "video"

\* a send_single_by_type that falls back to sendDocument after any failure
OnSingleFailureAlways(op) == "document"

\* a send_single_by_type that gives up after a failed sendVideo
OnSingleFailureNoFallback(op) == "none"

\* send_single_by_type, lines 709-717: what follows a failed operation:
\* "document" (sendVideo failed, fall back) or "none" (return None)
OnSingleFailure(op) == IF op = "video" THEN "document" ELSE "none"

\* send_single_by_type, lines 704-717: the operations invoked for a file
\* none of which returns an answer
OpsWhenFailed(f, asdoc) ==
    LET op == SingleOp(f, asdoc)
    IN IF OnSingleFailure(op) = "none" THEN <<op>>
       ELSE <<op, OnSingleFailure(op)>>

\* process_batch, lines 851-853 and 877-879: files_processed after
\* send_single_by_type returned `last` ("ok", "raw", or "none" for None)
ProcessedAfterSingle(fp, f, last) == Append(fp, f)

\* process_batch, lines 828-832: files_processed after send_media_group
\* returned (resp, processed_paths)
ProcessedAfterAlbum(fp, valid, last) == fp \o valid

\* request_with_retries, lines 458-459: every call starts with its own
\* attempt count; the worker keeps its batch, its place in it and what it
\* has processed
NewCall(r) ==
    [IdleWorker EXCEPT !.b = r.b, !.i = r.i, !.sess = r.sess,
                       !.files_processed = r.files_processed,
                       !.valid = r.valid]

\* process_batch, lines 851-870 and 877-896: send_single_by_type returned
\* `last` for file i of the batch; the loop goes on, or the batch returns
AfterSingle(w, last) ==
    LET f == batches[wk[w].b][wk[w].i]
        fp == ProcessedAfterSingle(wk[w].files_processed, f, last)
    IN /\ folder' = post_upload_action(folder, f, delete_after_upload)
       /\ files_sent_shared' = files_sent_shared + 1
       /\ last_event' = [by |-> "worker", sent |-> files_sent_shared + 1,
                         total |-> total]
       /\ IF wk[w].i < Len(batches[wk[w].b])
          THEN /\ wk' = [wk EXCEPT ![w] =
                           [NewCall(@) EXCEPT !.files_processed = fp,
                                              !.i = @ + 1, !.pc = "single"]]
               /\ UNCHANGED <<fut_state, fut_result>>
          ELSE /\ fut_state' = [fut_state EXCEPT ![wk[w].b] = "done"]
               /\ fut_result' = [fut_result EXCEPT ![wk[w].b] = fp]
               /\ wk' = [wk EXCEPT ![w] = IdleWorker]

\* a send_single_by_type that only re-checks the size of the file
FailsFastOnlyEmpty(st) == st = "empty"

\* send_single_by_type, lines 698-702 and 715-717, and the open() of
\* send_photo, send_video and send_document, lines 722, 729 and 736: the
\* file whose state is st makes the call return None before any request
FailsFast(st) == st # "ok"

\* process_batch, lines 847-851 and 873-877: the next file of the batch
SendSingleByType(w) ==
    /\ Active
    /\ wk[w].pc = "single"
    /\ ~stop_event
    /\ LET f == batches[wk[w].b][wk[w].i]
       IN /\ single_tried' = single_tried \cup {f}
          /\ IF FailsFast(folder[f])
             THEN \* lines 700-702, 715-717: empty or gone, or open fails
                  \* in send_photo, send_video, send_document: returns None
                  /\ AfterSingle(w, "none")
                  /\ ops' = IF folder[f] = "unreadable"
                            THEN [ops EXCEPT
                                    ![f] = @ \o OpsWhenFailed(f, as_document)]
                            ELSE ops
             ELSE /\ wk' = [wk EXCEPT ![w].pc = "request",
                                      ![w].op = SingleOp(f, as_document),
                                      ![w].sess = session]
                  /\ ops' = [ops EXCEPT
                              ![f] = Append(@, SingleOp(f, as_document))]
                  /\ UNCHANGED <<folder, files_sent_shared, fut_state,
                                 fut_result, last_event>>
    /\ UNCHANGED <<options, sidevars, session, env_changes, progress_file, stop_event, run_no,
                   planvars, next_batch, coord, remotevars, group_failed,
                   stop_early>>

\* process_batch, lines 848-849, 874-875 and 900: the stop signal is seen
\* before the next file; the batch returns what it has
SingleLoopBreak(w) ==
    /\ Active
    /\ wk[w].pc = "single"
    /\ stop_event
    /\ fut_state' = [fut_state EXCEPT ![wk[w].b] = "done"]
    /\ fut_result' = [fut_result EXCEPT ![wk[w].b] = wk[w].files_processed]
    /\ wk' = [wk EXCEPT ![w] = IdleWorker]
    /\ UNCHANGED <<options, sidevars, observed, disk, stop_event, run_no, planvars, next_batch,
                   coord, files_sent_shared, remotevars, history>>

\* Files one request carries
RequestFiles(w) ==
    IF wk[w].op = "group" THEN SeqSet(wk[w].valid)
    ELSE {batches[wk[w].b][wk[w].i]}

\* a rate-limit wait that does not sleep at all
RateLimitNoWait(retry_after) == 0

\* request_with_retries, line 594: wait = int(retry_after) + 1
RateLimitSleeps(retry_after) == retry_after + 1

\* a loop that treats a body it cannot parse like an API error
OnResponseRawRetried(resp) ==
    CASE resp = "ok" -> "return"
      [] resp = "429" -> "wait"
      [] OTHER -> "backoff"

\* request_with_retries, lines 584-620: what the loop does with an answer:
\* "return" it, "wait" as the server directs, or "backoff"
OnResponse(resp) ==
    CASE resp \in {"ok", "raw"} -> "return"
      [] resp = "429" -> "wait"
      [] OTHER -> "backoff"

RECURSIVE LoopOutcomes(_, _, _)
\* request_with_retries, lines 458-622: the ways the retry loop can end when
\* the stop signal stays clear and n attempts were used: an answer the loop
\* returns ("ok", "raw") or "raise" (line 622)
LoopOutcomes(mode, op, n) ==
    IF n >= RetryLimit(op) THEN {"raise"}
    ELSE {r \in Responses(mode, op) : OnResponse(r) = "return"}
         \cup (IF \E r \in Responses(mode, op) : OnResponse(r) # "return"
               THEN LoopOutcomes(mode, op, n + 1) ELSE {})

\* send_single_by_type (lines 704-717) and process_batch (lines 828-844,
\* 851-870, 877-896, 897-899): what the caller of request_with_retries does
\* when the call of worker w ends with out: an answer, or "raise"
Caller(w, out) ==
    CASE wk[w].op = "group" /\ out = "raise" ->
              \* lines 897-899: fatal error in batch, return []
              /\ group_failed' = group_failed \cup {wk[w].b}
              /\ fut_state' = [fut_state EXCEPT ![wk[w].b] = "done"]
              /\ fut_result' = [fut_result EXCEPT ![wk[w].b] = <<>>]
              /\ wk' = [wk EXCEPT ![w] = IdleWorker]
              /\ UNCHANGED <<folder, files_sent_shared, ops, last_event>>
      [] wk[w].op = "group" /\ out # "raise" ->
              \* lines 829-844 and 900
              /\ folder' = PostAll(folder, wk[w].valid, delete_after_upload)
              /\ files_sent_shared' = files_sent_shared + Len(wk[w].valid)
              /\ fut_state' = [fut_state EXCEPT ![wk[w].b] = "done"]
              /\ fut_result' = [fut_result EXCEPT ![wk[w].b] =
                     ProcessedAfterAlbum(wk[w].files_processed,
                                         wk[w].valid, out)]
              /\ last_event' =
                     [by |-> "worker",
                      sent |-> files_sent_shared + Len(wk[w].valid),
                      total |-> total]
              /\ wk' = [wk EXCEPT ![w] = IdleWorker]
              /\ UNCHANGED <<group_failed, ops>>
      [] wk[w].op # "group" /\ out = "raise"
              /\ OnSingleFailure(wk[w].op) = "document" ->
              \* lines 711-713
              /\ wk' = [wk EXCEPT ![w] =
                          [NewCall(@) EXCEPT !.pc = "request",
                                             !.op = "document"]]
              /\ ops' = [ops EXCEPT
                          ![batches[wk[w].b][wk[w].i]] =
                              Append(@, "document")]
              /\ UNCHANGED <<folder, files_sent_shared, fut_state,
                             fut_result, group_failed, last_event>>
      [] OTHER ->
              /\ AfterSingle(w, IF out = "raise" THEN "none" ELSE out)
              /\ UNCHANGED <<group_failed, ops>>

\* one call of request_with_retries (lines 450-622) by a worker of the run,
\* and what its caller does with the outcome
Request(w) ==
    /\ Active
    /\ wk[w].pc = "request"
    /\ \E out \in IF stop_event THEN {"raise"}
                  ELSE LoopOutcomes(remote_mode, wk[w].op, 0) :
          LET acc == Accept(delivered, via, RequestFiles(w), wk[w].op)
          IN /\ delivered' = IF out = "ok" THEN acc.dl ELSE delivered
             /\ via' = IF out = "ok" THEN acc.vi ELSE via
             /\ Caller(w, out)
    /\ UNCHANGED <<options, sidevars, session, env_changes, progress_file, stop_event, run_no,
                   planvars, next_batch, coord, single_tried, stop_early>>

\* ------------------------------------------- request_with_retries
\* The retry loop of one call, step by step, for the call worker w has
\* in flight.

\* a payload stream left where the previous attempt stopped reading
no_rewind(offset) == offset

\* request_with_retries, lines 488-503 and 516-533: fileobj.seek(0) on
\* every file object of the payload, before the attempt posts it
rewind(offset) == 0

\* requests reads the payload to its end, or part of it when the
\* connection breaks: the position of the file object after the post
AfterPost(resp) == IF resp = "network" THEN 1 ELSE 2

\* a loop in which a rate-limited attempt does not count
NextAttemptUnlessLimited(n, resp) ==
    IF resp \in {"429", "429_no_wait"} THEN n ELSE n + 1

\* request_with_retries, lines 460-461: attempt += 1, whatever the answer
\* of the attempt will be
NextAttempt(n, resp) == n + 1

\* request_with_retries, lines 460-620: one iteration of the retry loop;
\* the remote answers resp (with retry_after = ra on a 429)
Attempt(w) ==
    /\ Active
    /\ wk[w].pc = "request"
    /\ wk[w].attempt < RetryLimit(wk[w].op)
    /\ ~stop_event
    /\ \E resp \in Responses(remote_mode, wk[w].op) :
       \E ra \in IF resp = "429" THEN 0..MaxRetryAfter ELSE {0} :
          LET acc == Accept(delivered, via, RequestFiles(w), wk[w].op)
              todo == OnResponse(resp)
          IN /\ delivered' = IF resp = "ok" THEN acc.dl ELSE delivered
             /\ via' = IF resp = "ok" THEN acc.vi ELSE via
             /\ wk' = [wk EXCEPT
                         ![w].attempt = NextAttempt(@, resp),
                         ![w].only429 = @ /\ resp \in {"429", "429_no_wait"},
                         ![w].last = resp,
                         ![w].sleep_left = IF todo = "wait"
                                           THEN RateLimitSleeps(ra) ELSE 0,
                         ![w].wait_w = IF todo = "wait" THEN ra ELSE @,
                         ![w].slept = IF todo = "wait" THEN 0 ELSE @,
                         ![w].sent_from = rewind(wk[w].offset),
                         ![w].offset = AfterPost(resp),
                         ![w].pc = CASE todo = "return" -> "returned"
                                     [] todo = "wait" -> "rl_sleep"
                                     [] OTHER -> "backoff"]
    /\ UNCHANGED <<options, sidevars, observed, disk, stop_event, run_no, planvars, futures,
                   coord, files_sent_shared, history>>

\* request_with_retries, lines 564-582, 591-593, 605-608: time.sleep(backoff)
Backoff(w) ==
    /\ Active
    /\ wk[w].pc = "backoff"
    /\ wk' = [wk EXCEPT ![w].pc = "request", ![w].backoffs = @ + 1]
    /\ UNCHANGED <<options, sidevars, observed, disk, stop_event, run_no, planvars, futures,
                   coord, files_sent_shared, remotevars, history>>

\* request_with_retries, lines 595-602: one turn of the interruptible wait
RateLimitWait(w) ==
    /\ Active
    /\ wk[w].pc = "rl_sleep"
    /\ IF wk[w].sleep_left = 0 \/ stop_event
       THEN wk' = [wk EXCEPT ![w].pc = "request", ![w].sleep_left = 0]
       ELSE wk' = [wk EXCEPT ![w].sleep_left = @ - 1, ![w].slept = @ + 1]
    /\ UNCHANGED <<options, sidevars, observed, disk, stop_event, run_no, planvars, futures,
                   coord, files_sent_shared, remotevars, history>>

\* request_with_retries, lines 460 and 622: the loop ends without a result
Raise(w) ==
    /\ Active
    /\ wk[w].pc = "request"
    /\ ~(wk[w].attempt < RetryLimit(wk[w].op) /\ ~stop_event)
    /\ wk' = [wk EXCEPT ![w].pc = "raised"]
    /\ UNCHANGED <<options, sidevars, observed, disk, stop_event, run_no, planvars, futures,
                   coord, files_sent_shared, remotevars, history>>

\* the call of worker w has ended, with the answer it returns or with the
\* exception of line 622, and its caller goes on
Returned(w) ==
    /\ Active
    /\ wk[w].pc \in {"returned", "raised"}
    /\ Caller(w, IF wk[w].pc = "raised" THEN "raise" ELSE wk[w].last)
    /\ UNCHANGED <<options, sidevars, session, env_changes, progress_file, stop_event, run_no,
                   planvars, next_batch, coord, single_tried, stop_early,
                   remotevars>>

\* run, lines 912-918: as_completed hands out a finished future
CoordYield(b) ==
    /\ cpc = "loop"
    /\ b \in AllBatches \ yielded
    /\ fut_state[b] = "done"
    /\ yielded' = yielded \cup {b}
    /\ IF stop_event
       THEN cpc' = "shutdown" /\ cur' = 0
       ELSE cpc' = "got" /\ cur' = b
    /\ UNCHANGED <<options, sidevars, observed, disk, stop_event, run_no, planvars, futures,
                   uploaded_files, files_sent, files_sent_shared, wk,
                   remotevars, done_calls, history>>

\* a save that writes the loaded names only
NamesToSaveLoaded(upl, upfiles) == upl

\* run, lines 911 and 931: the list handed to save_progress
NamesToSave(upl, upfiles) == upfiles

\* run, lines 918-934: extend uploaded_files, report, save the record
CoordProcess ==
    /\ cpc = "got"
    /\ LET result == fut_result[cur]
           upfiles == uploaded_files \o result
       IN IF result # <<>>
          THEN /\ uploaded_files' = upfiles
               /\ files_sent' = Len(upfiles)
               /\ last_event' = [by |-> "run", sent |-> Len(upfiles),
                                 total |-> total]
               /\ progress_file' = save_progress(NamesToSave(uploaded, upfiles))
          ELSE UNCHANGED <<uploaded_files, files_sent, progress_file,
                           last_event>>
    /\ cpc' = "loop"
    /\ cur' = 0
    /\ UNCHANGED <<options, sidevars, ops, session, folder, env_changes, stop_event, run_no, planvars,
                   futures, yielded, files_sent_shared, wk, remotevars,
                   done_calls, history>>

\* run, lines 939-944: what is left of the record when the run ends
RecordAtEnd(pf, stopped, sent, rem) == NoRecord

\* run, line 945: the argument of the terminal done_callback
TerminalSuccess(stopped) == TRUE

\* App.upload_done, lines 2609-2614, and _start_next_folder, lines 2555-2596:
\* how the callback ends. Called with success and the stop signal clear in
\* multi-folder mode it builds the next worker from the fields of the form
\* (Tk variables, UploadWorker.__init__), which can raise; otherwise it
\* returns.
upload_done(success, stopped) ==
    IF success /\ ~stopped THEN {"returns", "raises"} ELSE {"returns"}

\* run, lines 906-948: the loop over the futures is over (every future was
\* handed out, or break), the executor has waited for every batch
CoordFinish ==
    /\ \/ cpc = "loop" /\ yielded = AllBatches
       \/ cpc = "shutdown"
    /\ \A b \in AllBatches : fut_state[b] = "done"
    /\ progress_file' = RecordAtEnd(progress_file, stop_event,
                                    SeqSet(uploaded_files), SeqSet(remaining))
    /\ \E out \in upload_done(TerminalSuccess(stop_event), stop_event) :
          done_calls' =
              IF out = "raises"
              THEN \* lines 946-948: the handler of run calls it again
                   done_callback(done_callback(done_calls,
                                               TerminalSuccess(stop_event)),
                                 FALSE)
              ELSE done_callback(done_calls, TerminalSuccess(stop_event))
    /\ session' = 0
    /\ cpc' = "done"
    /\ UNCHANGED <<options, sidevars, ops, last_event, folder, env_changes, stop_event, run_no, planvars,
                   futures, yielded, cur, uploaded_files, files_sent,
                   files_sent_shared, wk, remotevars, history>>

\* -------------------------------------------------------- environment
\* App.stop_upload, line 2602: stop_event.set()
SetStop ==
    /\ cpc = "start" \/ Active
    /\ ~stop_event
    /\ stop_event' = TRUE
    /\ stop_early' = (Active /\ \E b \in AllBatches : fut_state[b] # "done")
    /\ UNCHANGED <<options, sidevars, observed, disk, run_no, planvars, futures, coord,
                   files_sent_shared, wk, remotevars, single_tried,
                   group_failed>>

\* what others can do to a file of the folder: truncate it, remove it, or
\* take away the permission to read it
FileChanges == {"empty", "gone", "unreadable"}

\* a file of the folder is truncated or removed by someone else
FileChange(f, to) ==
    /\ cpc = "start" \/ Active
    /\ env_changes < MaxEnvChanges
    /\ folder[f] = "ok"
    /\ to \in FileChanges
    /\ folder' = [folder EXCEPT ![f] = to]
    /\ env_changes' = env_changes + 1
    /\ UNCHANGED <<options, sidevars, observed, progress_file, stop_event, run_no, planvars,
                   futures, coord, files_sent_shared, wk, remotevars, history>>

\* what a new process finds: nothing of the worker's memory
FreshRun ==
    /\ all_media' = <<>> /\ uploaded' = <<>> /\ remaining' = <<>>
    /\ total' = 0 /\ batches' = <<>>
    /\ next_batch' = 1
    /\ fut_state' = <<>> /\ fut_result' = <<>>
    /\ yielded' = {} /\ cur' = 0
    /\ uploaded_files' = <<>> /\ files_sent' = 0 /\ files_sent_shared' = 0
    /\ wk' = [w \in Workers |-> IdleWorker]
    /\ done_calls' = <<>>
    /\ single_tried' = {}
    /\ group_failed' = {}
    /\ stop_early' = FALSE
    /\ ops' = [f \in Names |-> <<>>]
    /\ session' = 0
    /\ last_event' = NoEvent

\* the process is killed while the daemon thread runs (line 337): the
\* folder and the record stay as they are
Kill ==
    /\ Active
    /\ run_no = 1
    /\ cpc' = "killed"
    /\ FreshRun
    /\ UNCHANGED <<options, sidevars, disk, stop_event, run_no, max_workers,
                   remotevars>>

\* App.start_upload, lines 2514-2553: a new worker on the same folder
NextRun ==
    /\ cpc \in {"done", "killed"}
    /\ run_no = 1
    /\ run_no' = 2
    /\ prev_end' = cpc
    /\ cpc' = "start"
    /\ stop_event' = FALSE
    /\ FreshRun
    /\ UNCHANGED <<as_document, no_album, resume, delete_after_upload,
                   req_workers, fault, remote_mode, disk, max_workers,
                   remotevars, sidevars>>

\* the steps of one run of the worker and of its stop signal
RunStep ==
    \/ RunStart
    \/ \E w \in Workers : TakeBatch(w)
    \/ \E w \in Workers : SendMediaGroup(w)
    \/ \E w \in Workers : SendSingleByType(w)
    \/ \E w \in Workers : SingleLoopBreak(w)
    \/ \E w \in Workers : Request(w)
    \/ \E b \in AllBatches : CoordYield(b)
    \/ CoordProcess
    \/ CoordFinish
    \/ SetStop

\* one run on a folder that others may change meanwhile
Next ==
    \/ RunStep
    \/ \E f \in Names, to \in FileChanges : FileChange(f, to)

Spec == Init /\ [][Next]_vars

\* one run against an accepting remote, without a progress record, on a
\* folder that others may change meanwhile
InitDisturbed ==
    /\ Init
    /\ fault = "none" /\ remote_mode = "accept" /\ ~resume

SpecDisturbed == InitDisturbed /\ [][Next]_vars

\* one run on a folder that nobody else changes meanwhile
SpecRun == Init /\ [][RunStep]_vars

\* two runs on the same folder, the first of which may be killed
NextResume ==
    \/ RunStep
    \/ Kill
    \/ NextRun

SpecResume == Init /\ [][NextResume]_vars

\* ------------------------------------------------------ album mode
\* A run in album mode (neither no-album nor document-only) on a folder of
\* up to MaxFiles files, with any requested worker count.
InitAlbum ==
    /\ as_document = FALSE
    /\ no_album = FALSE
    /\ resume = FALSE
    /\ delete_after_upload = FALSE
    /\ req_workers \in 1..(MaxWorkers + 1)
    /\ fault = "none"
    /\ remote_mode \in {"accept", "reject_video"}
    /\ \E n \in 1..MaxFiles : folder = [f \in 1..n |-> "ok"]
    /\ env_changes = 0
    /\ progress_file = NoRecord
    /\ stop_event = FALSE
    /\ run_no = 1
    /\ cpc = "start"
    /\ max_workers = EffectiveWorkers(req_workers, no_album, as_document)
    /\ all_media = <<>> /\ uploaded = <<>> /\ remaining = <<>>
    /\ total = 0 /\ batches = <<>>
    /\ next_batch = 1
    /\ fut_state = <<>> /\ fut_result = <<>>
    /\ yielded = {} /\ cur = 0
    /\ uploaded_files = <<>> /\ files_sent = 0 /\ files_sent_shared = 0
    /\ wk = [w \in Workers |-> IdleWorker]
    /\ delivered = [f \in Names |-> 0]
    /\ via = [f \in Names |-> {}]
    /\ done_calls = <<>>
    /\ single_tried = {}
    /\ group_failed = {}
    /\ stop_early = FALSE
    /\ prev_end = "none"
    /\ quarantine = {}
    /\ post = [w \in Workers |-> IdlePost]
    /\ overwritten = {}
    /\ ops = [f \in Names |-> <<>>]
    /\ session = 0
    /\ last_event = NoEvent
    /\ NoCounter
    /\ OneWorker

SpecAlbum == InitAlbum /\ [][RunStep]_vars

\* ------------------------------------------------- the progress record
\* the texts .upload_progress.json can hold when a run starts: what
\* save_progress wrote for some of the files, a write cut short, JSON that
\* is no object, an object without 'uploaded', and an object whose
\* 'uploaded' is null
RecordTexts ==
    {json_dumps(SortedSeq(S)) : S \in SUBSET (1..FolderSize)}
        \cup {<<"{\"uploaded\": [", Quoted(1)>>, <<"[]">>, <<"{}">>,
              <<"{\"uploaded\": null}">>}

\* A run on a folder of FolderSize files next to a progress record of any
\* content, or to none.
InitRecord ==
    /\ as_document \in BOOLEAN
    /\ no_album \in BOOLEAN
    /\ resume \in BOOLEAN
    /\ delete_after_upload = FALSE
    /\ req_workers \in 1..MaxWorkers
    /\ fault = "none"
    /\ remote_mode = "accept"
    /\ folder = [f \in 1..FolderSize |-> "ok"]
    /\ env_changes = 0
    /\ progress_file \in
          {NoRecord} \cup {[exists |-> TRUE, text |-> t] : t \in RecordTexts}
    /\ stop_event = FALSE
    /\ run_no = 1
    /\ cpc = "start"
    /\ max_workers = EffectiveWorkers(req_workers, no_album, as_document)
    /\ all_media = <<>> /\ uploaded = <<>> /\ remaining = <<>>
    /\ total = 0 /\ batches = <<>>
    /\ next_batch = 1
    /\ fut_state = <<>> /\ fut_result = <<>>
    /\ yielded = {} /\ cur = 0
    /\ uploaded_files = <<>> /\ files_sent = 0 /\ files_sent_shared = 0
    /\ wk = [w \in Workers |-> IdleWorker]
    /\ delivered = [f \in Names |-> 0]
    /\ via = [f \in Names |-> {}]
    /\ done_calls = <<>>
    /\ single_tried = {}
    /\ group_failed = {}
    /\ stop_early = FALSE
    /\ prev_end = "none"
    /\ quarantine = {}
    /\ post = [w \in Workers |-> IdlePost]
    /\ overwritten = {}
    /\ ops = [f \in Names |-> <<>>]
    /\ session = 0
    /\ last_event = NoEvent
    /\ NoCounter
    /\ OneWorker

SpecRecord == InitRecord /\ [][RunStep]_vars

\* ------------------------------------------------------------ the scan
\* The start of a run on a folder that lists the entries 0..FolderSize, of
\* every kind.
InitScan ==
    /\ as_document = FALSE
    /\ no_album \in BOOLEAN
    /\ resume = FALSE
    /\ delete_after_upload = FALSE
    /\ req_workers = 1
    /\ fault = "none"
    /\ remote_mode = "accept"
    /\ folder \in [0..FolderSize -> Entries]
    /\ env_changes = 0
    /\ progress_file = NoRecord
    /\ stop_event = FALSE
    /\ run_no = 1
    /\ cpc = "start"
    /\ max_workers = EffectiveWorkers(req_workers, no_album, as_document)
    /\ all_media = <<>> /\ uploaded = <<>> /\ remaining = <<>>
    /\ total = 0 /\ batches = <<>>
    /\ next_batch = 1
    /\ fut_state = <<>> /\ fut_result = <<>>
    /\ yielded = {} /\ cur = 0
    /\ uploaded_files = <<>> /\ files_sent = 0 /\ files_sent_shared = 0
    /\ wk = [w \in Workers |-> IdleWorker]
    /\ delivered = [f \in Names |-> 0]
    /\ via = [f \in Names |-> {}]
    /\ done_calls = <<>>
    /\ single_tried = {}
    /\ group_failed = {}
    /\ stop_early = FALSE
    /\ prev_end = "none"
    /\ quarantine = {}
    /\ post = [w \in Workers |-> IdlePost]
    /\ overwritten = {}
    /\ ops = [f \in Names |-> <<>>]
    /\ session = 0
    /\ last_event = NoEvent
    /\ NoCounter
    /\ OneWorker

SpecScan == InitScan /\ [][RunStart]_vars

\* -------------------------------------------------- post-upload action
\* _post_upload_action, line 755: f"{base}_{i}{suff}"
candidate(stem, i) == Append(stem, i)

\* _post_upload_action, lines 744-750: the policy, and target.exists()
PostStart(w) ==
    /\ post[w].pc = "post"
    /\ post' = [post EXCEPT ![w] =
                 IF ~delete_after_upload THEN [@ EXCEPT !.pc = "done"]
                 ELSE IF post[w].file \in quarantine
                      THEN [@ EXCEPT !.pc = "probe", !.i = 1]
                      ELSE [@ EXCEPT !.pc = "replace", !.target = post[w].file]]
    /\ UNCHANGED <<options, disk, stop_event, run_no, cpc, planvars, futures,
                   yielded, cur, uploaded_files, files_sent, files_sent_shared,
                   wk, remotevars, done_calls, history, quarantine,
                   overwritten, observed, countervars, appvars>>

\* _post_upload_action, lines 754-760: one turn of the suffix loop
PostProbe(w) ==
    /\ post[w].pc = "probe"
    /\ LET c == candidate(post[w].file, post[w].i)
       IN post' = [post EXCEPT ![w] =
                     IF c \notin quarantine
                     THEN [@ EXCEPT !.pc = "replace", !.target = c]
                     ELSE [@ EXCEPT !.i = @ + 1]]
    /\ UNCHANGED <<options, disk, stop_event, run_no, cpc, planvars, futures,
                   yielded, cur, uploaded_files, files_sent, files_sent_shared,
                   wk, remotevars, done_calls, history, quarantine,
                   overwritten, observed, countervars, appvars>>

\* _post_upload_action, lines 761-769: p.replace(target), which replaces a
\* file that is at the target; when the move fails the file is deleted
PostReplace(w) ==
    /\ post[w].pc = "replace"
    /\ \E moved \in BOOLEAN :
          IF moved
          THEN /\ quarantine' = quarantine \cup {post[w].target}
               /\ overwritten' = overwritten \cup
                                    ({post[w].target} \cap quarantine)
          ELSE UNCHANGED <<quarantine, overwritten>>
    /\ post' = [post EXCEPT ![w].pc = "done"]
    /\ UNCHANGED <<options, disk, stop_event, run_no, cpc, planvars, futures,
                   yielded, cur, uploaded_files, files_sent, files_sent_shared,
                   wk, remotevars, done_calls, history, observed,
                   countervars, appvars>>

\* The pool threads of a run in no-album mode, each about to apply
\* _post_upload_action to a different file of the folder; .uploaded may hold
\* files of earlier runs.
InitQuarantine ==
    /\ as_document = FALSE
    /\ no_album = TRUE
    /\ resume = FALSE
    /\ delete_after_upload \in BOOLEAN
    /\ req_workers = MaxWorkers
    /\ fault = "none"
    /\ remote_mode = "accept"
    /\ folder = [f \in 1..FolderSize |-> "ok"]
    /\ env_changes = 0
    /\ progress_file = NoRecord
    /\ stop_event = FALSE
    /\ run_no = 1
    /\ cpc = "loop"
    /\ max_workers = EffectiveWorkers(req_workers, no_album, as_document)
    /\ all_media = get_media_files(folder)
    /\ uploaded = <<>>
    /\ remaining = all_media
    /\ total = Len(all_media)
    /\ batches = PlanBatches(remaining, no_album)
    /\ next_batch = 1
    /\ fut_state = [k \in 1..Len(batches) |-> "queued"]
    /\ fut_result = [k \in 1..Len(batches) |-> <<>>]
    /\ yielded = {} /\ cur = 0
    /\ uploaded_files = <<>> /\ files_sent = 0 /\ files_sent_shared = 0
    /\ wk = [w \in Workers |-> IdleWorker]
    /\ delivered = [f \in Names |-> 0]
    /\ via = [f \in Names |-> {}]
    /\ done_calls = <<>>
    /\ single_tried = {}
    /\ group_failed = {}
    /\ stop_early = FALSE
    /\ prev_end = "none"
    /\ quarantine \in SUBSET QNames
    /\ \E files \in [Workers -> QNames] :
          /\ \A v, w \in Workers : v # w => files[v] # files[w]
          /\ post = [w \in Workers |->
                       [IdlePost EXCEPT !.pc = "post", !.file = files[w]]]
    /\ overwritten = {}
    /\ ops = [f \in Names |-> <<>>]
    /\ session = 1
    /\ last_event = NoEvent
    /\ NoCounter
    /\ OneWorker

NextQuarantine ==
    \/ \E w \in Workers : PostStart(w)
    \/ \E w \in Workers : PostProbe(w)
    \/ \E w \in Workers : PostReplace(w)

SpecQuarantine == InitQuarantine /\ [][NextQuarantine]_vars

\* ------------------------------------------------------- one call
\* A run at the moment its only worker is about to call
\* request_with_retries for file i of batch b, the earlier batches and files
\* having been processed without an accepted answer.
InitRetry ==
    /\ as_document \in BOOLEAN
    /\ no_album \in BOOLEAN
    /\ resume = FALSE
    /\ delete_after_upload = FALSE
    /\ req_workers = 1
    /\ fault = "none"
    /\ remote_mode = "any_raw"
    /\ folder = [f \in 1..FolderSize |-> "ok"]
    /\ env_changes = 0
    /\ progress_file = NoRecord
    /\ stop_event = FALSE
    /\ run_no = 1
    /\ cpc = "loop"
    /\ max_workers = 1
    /\ all_media = get_media_files(folder)
    /\ uploaded = <<>>
    /\ remaining = all_media
    /\ total = Len(all_media)
    /\ batches = PlanBatches(remaining, no_album)
    /\ \E b \in 1..Len(batches) : \E i \in 1..Len(batches[b]) :
          LET album == Len(batches[b]) > 1 /\ ~as_document
              before == [k \in 1..(i - 1) |-> batches[b][k]]
          IN /\ album => i = 1
             /\ next_batch = b + 1
             /\ fut_state = [k \in 1..Len(batches) |->
                               IF k < b THEN "done"
                               ELSE IF k = b THEN "running" ELSE "queued"]
             /\ fut_result = [k \in 1..Len(batches) |->
                                IF k < b THEN batches[k] ELSE <<>>]
             /\ wk = [w \in Workers |->
                        IF w = 1
                        THEN [IdleWorker EXCEPT
                                !.pc = "request", !.b = b, !.i = i,
                                !.sess = 1,
                                !.op = IF album THEN "group"
                                       ELSE SingleOp(batches[b][i], as_document),
                                !.valid = IF album THEN batches[b] ELSE <<>>,
                                !.files_processed = IF album THEN <<>> ELSE before]
                        ELSE IdleWorker]
             /\ files_sent_shared = IF no_album THEN b - 1 ELSE i - 1
             /\ single_tried = IF album THEN {}
                               ELSE {batches[k][1] : k \in 1..(b - 1)}
                                    \cup {batches[b][k] : k \in 1..i}
             /\ ops = [f \in Names |->
                         IF album THEN <<"group">>
                         ELSE IF f = batches[b][i]
                              THEN <<SingleOp(f, as_document)>>
                         ELSE IF f \in single_tried
                              THEN OpsWhenFailed(f, as_document)
                         ELSE <<>>]
             /\ last_event = IF files_sent_shared = 0 THEN NoEvent
                             ELSE [by |-> "worker", sent |-> files_sent_shared,
                                   total |-> total]
    /\ yielded = {} /\ cur = 0
    /\ uploaded_files = <<>> /\ files_sent = 0
    /\ delivered = [f \in Names |-> 0]
    /\ via = [f \in Names |-> {}]
    /\ done_calls = <<>>
    /\ group_failed = {}
    /\ stop_early = FALSE
    /\ prev_end = "none"
    /\ quarantine = {}
    /\ post = [w \in Workers |-> IdlePost]
    /\ overwritten = {}
    /\ session = 1
    /\ NoCounter
    /\ OneWorker

NextRetry ==
    \/ Attempt(1)
    \/ Backoff(1)
    \/ RateLimitWait(1)
    \/ Raise(1)
    \/ SetStop

SpecRetry == InitRetry /\ [][NextRetry]_vars

\* ---------------------------------------------------- a run to its end
\* A whole run with every call of request_with_retries taken step by step,
\* with a stop signal that may come at any moment or never: one pool
\* thread against a remote that accepts, fails or rate-limits every
\* request, or several pool threads against a remote that accepts every
\* request or refuses every video.
InitLive ==
    /\ as_document \in BOOLEAN
    /\ no_album \in BOOLEAN
    /\ resume = FALSE
    /\ delete_after_upload = FALSE
    /\ \/ req_workers = 1 /\ remote_mode \in {"accept", "fail", "limit"}
       \/ req_workers \in 1..MaxWorkers
             /\ remote_mode \in {"accept", "reject_video"}
    /\ fault = "none"
    /\ folder = [f \in 1..FolderSize |-> "ok"]
    /\ env_changes = 0
    /\ progress_file = NoRecord
    /\ stop_event = FALSE
    /\ run_no = 1
    /\ cpc = "start"
    /\ max_workers = EffectiveWorkers(req_workers, no_album, as_document)
    /\ all_media = <<>> /\ uploaded = <<>> /\ remaining = <<>>
    /\ total = 0 /\ batches = <<>>
    /\ next_batch = 1
    /\ fut_state = <<>> /\ fut_result = <<>>
    /\ yielded = {} /\ cur = 0
    /\ uploaded_files = <<>> /\ files_sent = 0 /\ files_sent_shared = 0
    /\ wk = [w \in Workers |-> IdleWorker]
    /\ delivered = [f \in Names |-> 0]
    /\ via = [f \in Names |-> {}]
    /\ done_calls = <<>>
    /\ single_tried = {}
    /\ group_failed = {}
    /\ stop_early = FALSE
    /\ prev_end = "none"
    /\ quarantine = {}
    /\ post = [w \in Workers |-> IdlePost]
    /\ overwritten = {}
    /\ ops = [f \in Names |-> <<>>]
    /\ session = 0
    /\ last_event = NoEvent
    /\ NoCounter
    /\ OneWorker

\* the steps of the run's threads: the coordinating thread and the pool
\* threads
ThreadStep ==
    \/ RunStart
    \/ \E w \in Workers : TakeBatch(w)
    \/ \E w \in Workers : SendMediaGroup(w)
    \/ \E w \in Workers : SendSingleByType(w)
    \/ \E w \in Workers : SingleLoopBreak(w)
    \/ \E w \in Workers : Attempt(w)
    \/ \E w \in Workers : Backoff(w)
    \/ \E w \in Workers : RateLimitWait(w)
    \/ \E w \in Workers : Raise(w)
    \/ \E w \in Workers : Returned(w)
    \/ \E b \in AllBatches : CoordYield(b)
    \/ CoordProcess
    \/ CoordFinish

NextLive ==
    \/ ThreadStep
    \/ SetStop

\* a thread that can take a step takes one: a post answers or times out
\* (lines 556-559), a sleep ends, the pool runs a submitted batch
SpecLive == InitLive /\ [][NextLive]_vars /\ WF_vars(ThreadStep)

\* ------------------------------------------------------------ the App
\* The window: Start Upload (button or menu), Stop, and the done_callback of
\* the workers it started. A worker is the folder it uploads.

RECURSIVE Orders(_)
\* the ways to list every element of S once
Orders(S) ==
    IF S = {} THEN {<<>>}
    ELSE UNION {{<<x>> \o o : o \in Orders(S \ {x})} : x \in S}

\* App.folders_list: what the user can have selected
FolderLists == UNION {Orders(S) : S \in SUBSET (1..MaxFolders)}

\* s without its k-th element
Without(s, k) == SubSeq(s, 1, k - 1) \o SubSeq(s, k + 1, Len(s))

\* start_upload, lines 2465-2553, called by the button (line 1477, which
\* lines 2510 and 2617 disable and enable) or by the Upload menu (line
\* 1133, always enabled), with folders_list = fl and folder_var = fv;
\* valid: token, channel and folder pass the checks of lines 2482-2503
StartUpload(by, fl, fv, valid) ==
    /\ by = "button" => btn_start
    /\ Len(sending) < MaxSending
    /\ LET first == IF fl # <<>> THEN Head(fl) ELSE fv
       IN /\ multi_mode' = IF fl # <<>> THEN Len(fl) > 1 ELSE multi_mode
          /\ remaining_folders' =
                 IF fl # <<>> THEN Tail(fl) ELSE remaining_folders
          /\ IF first = 0 \/ ~valid
             THEN UNCHANGED <<btn_start, stop_event, sending>>
             ELSE /\ btn_start' = FALSE
                  /\ stop_event' = FALSE
                  /\ sending' = Append(sending, first)
    /\ UNCHANGED <<options, quarantinevars, countervars, observed, disk,
                   run_no, planvars, futures, coord, files_sent_shared, wk,
                   remotevars, history>>

\* stop_upload, lines 2600-2608, confirmed by the user
StopUpload ==
    /\ stop_event' = TRUE
    /\ UNCHANGED <<options, quarantinevars, countervars, appvars, observed,
                   disk, run_no, planvars, futures, coord, files_sent_shared,
                   wk, remotevars, history>>

\* upload_done, lines 2609-2632, called by the k-th live worker at the end
\* of its run, and _start_next_folder, lines 2555-2598
WorkerDone(k, success) ==
    /\ k \in 1..Len(sending)
    /\ IF multi_mode /\ success /\ ~stop_event /\ remaining_folders # <<>>
       THEN \E out \in upload_done(success, stop_event) :
               /\ remaining_folders' = Tail(remaining_folders)
               /\ IF out = "returns"
                  THEN /\ sending' = Append(Without(sending, k),
                                            Head(remaining_folders))
                       /\ UNCHANGED <<multi_mode, btn_start>>
                  ELSE \* run, lines 946-948: done_callback(False)
                       /\ sending' = Without(sending, k)
                       /\ multi_mode' = FALSE
                       /\ btn_start' = TRUE
       ELSE /\ sending' = Without(sending, k)
            /\ multi_mode' = FALSE
            /\ btn_start' = TRUE
            /\ UNCHANGED remaining_folders
    /\ UNCHANGED <<options, quarantinevars, countervars, observed, disk,
                   stop_event, run_no, planvars, futures, coord,
                   files_sent_shared, wk, remotevars, history>>

\* App.__init__, lines 1097-1098: the window before any upload
InitApp ==
    /\ as_document = FALSE
    /\ no_album = FALSE
    /\ resume = FALSE
    /\ delete_after_upload = FALSE
    /\ req_workers = 1
    /\ fault = "none"
    /\ remote_mode = "accept"
    /\ folder = [f \in 1..FolderSize |-> "ok"]
    /\ env_changes = 0
    /\ progress_file = NoRecord
    /\ stop_event = FALSE
    /\ run_no = 1
    /\ cpc = "start"
    /\ max_workers = EffectiveWorkers(req_workers, no_album, as_document)
    /\ all_media = <<>> /\ uploaded = <<>> /\ remaining = <<>>
    /\ total = 0 /\ batches = <<>>
    /\ next_batch = 1
    /\ fut_state = <<>> /\ fut_result = <<>>
    /\ yielded = {} /\ cur = 0
    /\ uploaded_files = <<>> /\ files_sent = 0 /\ files_sent_shared = 0
    /\ wk = [w \in Workers |-> IdleWorker]
    /\ delivered = [f \in Names |-> 0]
    /\ via = [f \in Names |-> {}]
    /\ done_calls = <<>>
    /\ single_tried = {}
    /\ group_failed = {}
    /\ stop_early = FALSE
    /\ prev_end = "none"
    /\ quarantine = {}
    /\ post = [w \in Workers |-> IdlePost]
    /\ overwritten = {}
    /\ ops = [f \in Names |-> <<>>]
    /\ session = 0
    /\ last_event = NoEvent
    /\ NoCounter
    /\ multi_mode = FALSE
    /\ remaining_folders = <<>>
    /\ btn_start = TRUE
    /\ sending = <<>>

NextApp ==
    \/ \E by \in {"button", "menu"}, fl \in FolderLists,
          fv \in 0..MaxFolders, valid \in BOOLEAN :
            StartUpload(by, fl, fv, valid)
    \/ StopUpload
    \/ \E k \in 1..MaxSending, success \in BOOLEAN : WorkerDone(k, success)

SpecApp == InitApp /\ [][NextApp]_vars

\* ------------------------------------------------- the shared counter
\* The pool threads of a run in no-album mode, each statement of the counter
\* update of process_batch (lines 881-891) a step of its own.

\* a lock that never makes a thread wait
NoLock(holder) == TRUE

\* threading.Lock: `with self._files_sent_lock` enters when the lock is free
CanAcquire(holder) == holder = 0

countfixed == <<options, quarantinevars, appvars, ops, session, disk, stop_event,
                run_no, planvars, fut_result, coord, wk, remotevars, history>>

\* process_batch, lines 814-880: a pool thread takes the next batch and its
\* file goes through send_single_by_type and _post_upload_action
CounterTake(w) ==
    /\ w <= max_workers
    /\ inc[w].pc = "ready"
    /\ next_batch <= Len(batches)
    /\ next_batch' = Dequeue(next_batch)
    /\ fut_state' = [fut_state EXCEPT ![next_batch] = "running"]
    /\ inc' = [inc EXCEPT ![w].pc = "counting", ![w].b = next_batch]
    /\ UNCHANGED <<countfixed, files_sent_shared, counter_lock, events,
                   increments, last_event>>

\* process_batch, line 881: with self._files_sent_lock
CounterAcquire(w) ==
    /\ inc[w].pc = "counting"
    /\ CanAcquire(counter_lock)
    /\ counter_lock' = w
    /\ inc' = [inc EXCEPT ![w].pc = "locked"]
    /\ UNCHANGED <<countfixed, futures, files_sent_shared, events,
                   increments, last_event>>

\* process_batch, line 882: self._files_sent += 1 reads the attribute
CounterRead(w) ==
    /\ inc[w].pc = "locked"
    /\ inc' = [inc EXCEPT ![w].pc = "read", ![w].tmp = files_sent_shared]
    /\ UNCHANGED <<countfixed, futures, files_sent_shared, counter_lock,
                   events, increments, last_event>>

\* process_batch, line 882: self._files_sent += 1 stores the sum
CounterWrite(w) ==
    /\ inc[w].pc = "read"
    /\ files_sent_shared' = inc[w].tmp + 1
    /\ increments' = increments + 1
    /\ inc' = [inc EXCEPT ![w].pc = "written"]
    /\ UNCHANGED <<countfixed, futures, counter_lock, events, last_event>>

\* process_batch, line 883: current = self._files_sent, and the end of the
\* with block
CounterRelease(w) ==
    /\ inc[w].pc = "written"
    /\ inc' = [inc EXCEPT ![w].pc = "report", ![w].current = files_sent_shared]
    /\ counter_lock' = 0
    /\ UNCHANGED <<countfixed, futures, files_sent_shared, events,
                   increments, last_event>>

\* process_batch, lines 884-888 and 900: progress_callback(current, total,
\* eta); the batch of one file is done
CounterReport(w) ==
    /\ inc[w].pc = "report"
    /\ events' = Append(events, inc[w].current)
    /\ last_event' = [by |-> "worker", sent |-> inc[w].current,
                      total |-> total]
    /\ fut_state' = [fut_state EXCEPT ![inc[w].b] = "done"]
    /\ inc' = [inc EXCEPT ![w] = IdleInc]
    /\ UNCHANGED <<countfixed, next_batch, files_sent_shared, counter_lock,
                   increments>>

\* A run in no-album mode whose plan is submitted to the pool; the record
\* of an earlier run may name the first file.
InitCounter ==
    /\ as_document = FALSE
    /\ no_album = TRUE
    /\ resume \in BOOLEAN
    /\ delete_after_upload = FALSE
    /\ req_workers \in 1..MaxWorkers
    /\ fault = "none"
    /\ remote_mode = "accept"
    /\ \E n \in 1..MaxCounted : folder = [f \in 1..n |-> "ok"]
    /\ env_changes = 0
    /\ progress_file = IF resume THEN save_progress(<<1>>) ELSE NoRecord
    /\ stop_event = FALSE
    /\ run_no = 1
    /\ cpc = "loop"
    /\ max_workers = EffectiveWorkers(req_workers, no_album, as_document)
    /\ all_media = get_media_files(folder)
    /\ uploaded = IF resume THEN load_progress(progress_file) ELSE <<>>
    /\ remaining = Filter(all_media, SeqSet(uploaded))
    /\ total = Len(all_media)
    /\ batches = PlanBatches(remaining, no_album)
    /\ next_batch = 1
    /\ fut_state = [k \in 1..Len(batches) |-> "queued"]
    /\ fut_result = [k \in 1..Len(batches) |-> <<>>]
    /\ yielded = {} /\ cur = 0
    /\ uploaded_files = <<>>
    /\ files_sent = Len(uploaded)
    /\ files_sent_shared = Len(uploaded)
    /\ wk = [w \in Workers |-> IdleWorker]
    /\ delivered = [f \in Names |-> 0]
    /\ via = [f \in Names |-> {}]
    /\ done_calls = <<>>
    /\ single_tried = {}
    /\ group_failed = {}
    /\ stop_early = FALSE
    /\ prev_end = "none"
    /\ quarantine = {}
    /\ post = [w \in Workers |-> IdlePost]
    /\ overwritten = {}
    /\ ops = [f \in Names |-> <<>>]
    /\ session = 1
    /\ last_event = NoEvent
    /\ NoCounter
    /\ OneWorker

NextCounter ==
    \/ \E w \in Workers : CounterTake(w)
    \/ \E w \in Workers : CounterAcquire(w)
    \/ \E w \in Workers : CounterRead(w)
    \/ \E w \in Workers : CounterWrite(w)
    \/ \E w \in Workers : CounterRelease(w)
    \/ \E w \in Workers : CounterReport(w)

SpecCounter == InitCounter /\ [][NextCounter]_vars

\* =============================================================== claims
Delivered == {f \in Names : delivered[f] > 0}
RecordNames == SeqSet(load_progress(progress_file))
Occurrences(s, x) == Cardinality({k \in 1..Len(s) : s[k] = x})
\* the file goes through send_single_by_type, not through an album
SentAlone(f) ==
    \E b \in AllBatches :
        /\ f \in SeqSet(batches[b])
        /\ ~(Len(batches[b]) > 1 /\ ~as_document)

\* C1: every name in the persisted progress record belongs to a file whose
\* transfer the remote confirmed as accepted.
C1_RecordOnlyConfirmed == RecordNames \subseteq Delivered

\* C2: the record is deleted only after full success: when a run that has
\* saved a record ends cancelled, or with a file that was not delivered, the
\* record is still in place.
C2_ClearOnlyAfterSuccess ==
    (/\ cpc = "done"
     /\ uploaded_files # <<>>
     /\ stop_event \/ \E f \in SeqSet(all_media) : delivered[f] = 0)
    => progress_file.exists

\* C3: during a run with resume enabled the names in the record only grow:
\* every write of the record keeps the names it held before, those loaded
\* from a previous run included.
C3_RecordOnlyGrows ==
    [][(resume /\ progress_file'.exists)
          => RecordNames \subseteq SeqSet(load_progress(progress_file'))]_vars

\* C4: two runs on the same folder with resume enabled, against a remote
\* that accepts every request, the requests library in place and the folder
\* readable, the second run not cancelled: every file has
\* been delivered exactly once.
C4_ResumeExactlyOnce ==
    (/\ run_no = 2 /\ cpc = "done" /\ prev_end = "done"
     /\ resume /\ remote_mode = "accept" /\ ~stop_event /\ fault = "none")
    => \A f \in Names : delivered[f] = 1

\* C5: a batch whose grouped request failed has had every one of its files
\* handed to an individual send (unless the run was stopped).
C5_AlbumFallback ==
    ~stop_event =>
        \A b \in group_failed : SeqSet(batches[b]) \subseteq single_tried

\* C6 as stated: against a remote that rejects the video operation and
\* accepts the document operation, every video file of a run that ended
\* (not cancelled, folder untouched) was delivered exactly once, through the
\* document operation, and is counted once.
C6_EveryVideoViaDocument ==
    (/\ remote_mode = "reject_video" /\ cpc = "done" /\ done_calls = <<TRUE>>
     /\ ~stop_event /\ env_changes = 0)
    => \A f \in SeqSet(remaining) :
          is_video(f) =>
             /\ delivered[f] = 1
             /\ via[f] = {"document"}
             /\ Occurrences(uploaded_files, f) = 1

\* C6 amended: the same for every video file that is sent individually
\* (no-album or document-only mode, or a batch of one file).
C6_VideoFallback ==
    (/\ remote_mode = "reject_video" /\ cpc = "done" /\ done_calls = <<TRUE>>
     /\ ~stop_event /\ env_changes = 0)
    => \A f \in SeqSet(remaining) :
          (is_video(f) /\ SentAlone(f)) =>
             /\ delivered[f] = 1
             /\ via[f] = {"document"}
             /\ Occurrences(uploaded_files, f) = 1

\* C6 witness: a finished run in no-album mode in which the video file,
\* rejected by the video operation, went through the document operation.
C6_Witness ==
    /\ remote_mode = "reject_video" /\ cpc = "done" /\ done_calls = <<TRUE>>
    /\ ~stop_event /\ env_changes = 0
    /\ ~as_document /\ no_album
    /\ \E f \in SeqSet(remaining) :
          is_video(f) /\ delivered[f] = 1 /\ via[f] = {"document"}

\* C7: if the stop signal was set before all planned batches had completed,
\* the terminal event reports success = false.
C7_StopReportsFailure ==
    (cpc = "done" /\ stop_early) => done_calls = <<FALSE>>

\* C8: when a run ends with some files delivered and others failed, the
\* names of the delivered files are in the record after the run has ended.
C8_PartialProgressKept ==
    (/\ cpc = "done" /\ ~stop_event
     /\ Delivered # {}
     /\ \E f \in SeqSet(remaining) : delivered[f] = 0)
    => (progress_file.exists /\ Delivered \subseteq RecordNames)

\* C9: once the stop signal is set, no batch that is still queued is run, no
\* further file is handed to an individual send, and no name that was not
\* confirmed delivered is added to the record.
C9_StopHalts ==
    [][stop_event =>
         /\ \A b \in AllBatches :
               fut_state[b] = "queued" => fut_state'[b] # "running"
         /\ single_tried' \subseteq single_tried
         /\ (SeqSet(load_progress(progress_file')) \ RecordNames) \subseteq Delivered
      ]_vars

\* C10: a call of request_with_retries that got nothing but 429 answers
\* never ends with the retry-exhausted error.
C10_RateLimitNeverFails ==
    ~(/\ wk[1].pc = "raised" /\ ~stop_event
      /\ wk[1].attempt > 0 /\ wk[1].only429)

\* C11: after a 429 with retry_after W, the call makes its next attempt only
\* when W + 1 one-second sleeps are done and the stop signal is clear; once
\* the stop signal is set the wait ends at its next step without another
\* sleep, and the call makes no further attempt.
C11_RateLimitWait ==
    [][/\ (wk'[1].attempt > wk[1].attempt /\ wk[1].last = "429")
            => (wk[1].slept >= wk[1].wait_w + 1 /\ ~stop_event)
       /\ (stop_event /\ wk[1].pc = "rl_sleep" /\ wk'[1] # wk[1])
            => (wk'[1].pc = "request" /\ wk'[1].slept = wk[1].slept)
       /\ stop_event => wk'[1].attempt = wk[1].attempt
      ]_vars

\* C11 witness: a call that got a 429 with a wait of at least one second,
\* slept W + 1 seconds, tried again and was accepted.
C11_Witness ==
    /\ wk[1].pc = "returned" /\ wk[1].last = "ok" /\ wk[1].attempt = 2
    /\ wk[1].wait_w >= 1 /\ wk[1].slept = wk[1].wait_w + 1 /\ ~stop_event

\* C12: a call of request_with_retries with attempt ceiling N (2 for a grouped
\* send, 6 otherwise) makes at most N attempts; it returns only an answer the
\* loop accepts as a result, and when the stop signal is clear it raises the
\* retry-exhausted error only after N attempts that were all unsuccessful.
C12_RetryCeiling ==
    LET N == IF wk[1].op = "group" THEN GROUP_RETRIES ELSE MAX_RETRIES
    IN /\ wk[1].attempt <= N
       /\ wk[1].pc = "returned" => OnResponse(wk[1].last) = "return"
       /\ (wk[1].pc = "raised" /\ ~stop_event)
             => (wk[1].attempt = N /\ OnResponse(wk[1].last) # "return")
       /\ (wk[1].attempt = N /\ OnResponse(wk[1].last) # "return")
             => wk[1].pc \in {"backoff", "rl_sleep", "request", "raised"}

\* C12 witness: a single send that used its six attempts and raised.
C12_Witness ==
    /\ wk[1].pc = "raised" /\ ~stop_event
    /\ wk[1].op # "group" /\ wk[1].attempt = MAX_RETRIES

\* C13: in album mode the effective worker count is 1 whatever was
\* requested, at most one pool thread is busy, and at most one grouped
\* request is in flight.
C13_AlbumsSerialized ==
    (~no_album /\ ~as_document) =>
        /\ max_workers = 1
        /\ Cardinality({w \in Workers : wk[w].pc # "idle"}) <= 1
        /\ Cardinality({w \in Workers :
                           wk[w].pc = "request" /\ wk[w].op = "group"}) <= 1

\* C13 witness: more than one worker was requested, an album is in flight
\* and another batch is waiting in the queue.
C13_Witness ==
    /\ ~no_album /\ ~as_document /\ req_workers > 1
    /\ wk[1].pc = "request" /\ wk[1].op = "group"
    /\ next_batch <= Len(batches)

RECURSIVE Concat(_)
Concat(bs) == IF bs = <<>> THEN <<>> ELSE Head(bs) \o Concat(Tail(bs))

\* the least k with k * g >= n
CeilDiv(n, g) == CHOOSE k \in 0..n : k * g >= n /\ (k = 0 \/ (k - 1) * g < n)

\* C14: in album mode the plan for N remaining files has ceil(N / 5)
\* batches, each non-empty and of at most 5 files, and the batches put
\* one after the other are the remaining list in its order.
C14_GroupedPlan ==
    (cpc # "start" /\ ~no_album /\ all_media # <<>>) =>
        /\ Len(batches) = CeilDiv(Len(remaining), GROUP_SIZE)
        /\ \A b \in AllBatches :
              Len(batches[b]) >= 1 /\ Len(batches[b]) <= GROUP_SIZE
        /\ Concat(batches) = remaining

\* C14 witness: eleven remaining files planned as 5, 5, 1.
C14_Witness ==
    /\ cpc = "loop" /\ ~no_album
    /\ Len(remaining) = 2 * GROUP_SIZE + 1
    /\ Len(batches) = 3 /\ Len(batches[3]) = 1

\* the scenario of C16: 23 files, album mode, 3 workers requested, a remote
\* that accepts every request, no cancellation
Scenario23 ==
    /\ Len(all_media) = 23 /\ ~no_album /\ ~as_document
    /\ req_workers = 3 /\ remote_mode = "accept" /\ ~stop_event

\* C16 as stated: when the scenario's run has ended, the plan was 5, 5, 5, 5,
\* 3, the worker count 1, the progress record holds the 23 names and the
\* terminal event is success = true.
C16_Scenario23Recorded ==
    (Scenario23 /\ cpc = "done") =>
        /\ [b \in AllBatches |-> Len(batches[b])] = <<5, 5, 5, 5, 3>>
        /\ max_workers = 1
        /\ RecordNames = 1..23
        /\ done_calls = <<TRUE>>

\* C16 amended: the plan is 5, 5, 5, 5, 3 and the worker count 1; when the
\* last batch has been processed the record holds the 23 names; when the run
\* has ended every name was handed to save_progress once, the record has
\* been deleted and the terminal event of the completion is success = true.
C16_Scenario23 ==
    /\ (Scenario23 /\ cpc # "start") =>
          /\ [b \in AllBatches |-> Len(batches[b])] = <<5, 5, 5, 5, 3>>
          /\ max_workers = 1
    /\ (Scenario23 /\ cpc = "loop" /\ yielded = AllBatches) =>
          (progress_file.exists /\ RecordNames = 1..23)
    /\ (Scenario23 /\ cpc = "done") =>
          /\ SeqSet(uploaded_files) = 1..23 /\ Len(uploaded_files) = 23
          /\ Delivered = 1..23
          /\ ~progress_file.exists
          /\ Head(done_calls) = TRUE

\* C16 witness: the scenario's run has ended with success = true.
C16_Witness ==
    /\ Scenario23 /\ cpc = "done" /\ done_calls = <<TRUE>>
    /\ Len(uploaded_files) = 23

\* C15: in no-album mode and in document-only mode the plan for N remaining
\* files is N batches of one file each.
C15_SingletonPlan ==
    (cpc # "start" /\ all_media # <<>> /\ (no_album \/ as_document)) =>
        /\ Len(batches) = Len(remaining)
        /\ \A b \in AllBatches : Len(batches[b]) = 1

\* C17: load_progress after save_progress(S) returns exactly S: right after
\* every write of the record, load_progress gives the list that was handed
\* to save_progress, and a run that resumes starts from the list it loads.
C17_SaveLoadRoundTrip ==
    [][/\ (progress_file' # progress_file /\ progress_file'.exists)
            => load_progress(progress_file') = uploaded_files'
       /\ (resume /\ cpc = "start" /\ cpc' = "loop")
            => uploaded' = load_progress(progress_file)
      ]_vars

\* C17 witness: a second run that loaded the names the first run saved
\* before it was killed.
C17_Witness ==
    /\ run_no = 2 /\ prev_end = "killed" /\ resume /\ cpc = "loop"
    /\ Len(uploaded) = 2
    /\ uploaded = load_progress(progress_file)

\* C18: a run emits exactly one terminal event: none while it is going on,
\* one when it has ended, on every path (no requests library, folder that
\* cannot be listed, no media, completion, cancellation).
C18_OneTerminalEvent ==
    /\ cpc = "done" => Len(done_calls) = 1
    /\ cpc # "done" => done_calls = <<>>

\* C19: the post-transfer action has been applied only to files whose
\* delivery the remote confirmed: a file that was moved out of the session
\* folder was accepted by the remote.
C19_PostActionOnlyDelivered ==
    \A f \in Names : folder[f] = "moved" => delivered[f] > 0

\* C20: the post-upload action never replaces a file that is already in
\* .uploaded, under any interleaving of the workers.
C20_QuarantineNoOverwrite == overwritten = {}

\* C23: once the stop signal is set, request_with_retries starts no
\* further network attempt and no further sleep, neither a generic
\* backoff sleep nor a second of a rate-limit wait
C23_StopBeforeAttemptAndSleep ==
    [][stop_event
         => /\ wk'[1].attempt = wk[1].attempt
            /\ wk'[1].backoffs = wk[1].backoffs
            /\ wk'[1].slept = wk[1].slept]_vars

\* C25: every network attempt of request_with_retries, a retry
\* included, reads the payload from offset 0
C25_PayloadFromFirstByte ==
    \A w \in Workers : wk[w].attempt > 0 => wk[w].sent_from = 0

\* a call whose first attempts left the stream consumed and whose retry
\* was accepted
C25_Witness ==
    /\ wk[1].attempt >= 2 /\ wk[1].pc = "returned" /\ wk[1].last = "ok"
    /\ wk[1].backoffs >= 1 /\ wk[1].sent_from = 0 /\ wk[1].offset = 2

\* the file was handed to a send operation in this run
Attempted(f) == f \in single_tried \/ Occurrences(ops[f], "group") > 0

\* C21: in a run that ends without the stop signal, a file that comes
\* after a failed file of the plan, and that is still in place and
\* readable, was attempted
C21_FailureNeverAborts ==
    (cpc = "done" /\ ~stop_event /\ fault = "none")
        => \A f \in SeqSet(remaining) :
              (\E g \in SeqSet(remaining) : g < f /\ delivered[g] = 0)
                  => (Attempted(f) \/ folder[f] # "ok")

\* C22: in document-only mode every operation invoked for a file is the
\* document operation, and no worker ever holds a photo, video or grouped
\* request
C22_DocumentOnly ==
    as_document
        => /\ \A f \in Names : \A k \in 1..Len(ops[f]) : ops[f][k] = "document"
           /\ \A w \in Workers : wk[w].op \in {"none", "document"}

\* a document-only run, planned in a batch of two files, that has sent an
\* image and a video, one of them refused by the remote
C22_Witness ==
    /\ as_document /\ ~no_album /\ cpc = "done" /\ ~stop_event
    /\ Len(batches) = 1 /\ Len(batches[1]) = 2
    /\ \A f \in Names : ops[f] = <<"document">>
    /\ \E f, g \in Names : delivered[f] = 1 /\ delivered[g] = 0

\* worker w has a request of operation op for file f in flight
InFlight(f, op) ==
    \E w \in Workers :
        /\ wk[w].pc = "request" /\ wk[w].op = op
        /\ f \in RequestFiles(w)

\* C24: a video operation that failed is followed by exactly one document
\* operation for the same file, an accepted one by none; a photo or
\* document operation is followed by nothing, failed or not
C24_OneVideoFallback ==
    \A f \in Names :
        ops[f] # <<>> =>
           CASE ops[f][1] = "video" ->
                   IF InFlight(f, "video") \/ "video" \in via[f]
                   THEN ops[f] = <<"video">>
                   ELSE ops[f] = <<"video", "document">>
             [] ops[f][1] \in {"photo", "document"} -> Len(ops[f]) = 1
             [] OTHER -> ops[f] = <<"group">>

\* a finished run in which the video's operation failed and its fallback
\* delivered it, while the image's photo operation failed for good
C24_Witness ==
    /\ cpc = "done" /\ ~stop_event /\ ~as_document
    /\ \E f, g \in Names :
          /\ ops[f] = <<"video", "document">> /\ via[f] = {"document"}
          /\ folder[f] = "ok" /\ folder[g] = "ok"
          /\ ops[g] = <<"photo">> /\ delivered[g] = 0

\* C26: two workers with a request in flight never post through the same
\* Session object
C26_OwnSession ==
    \A v, w \in Workers :
        (v # w /\ wk[v].pc = "request" /\ wk[w].pc = "request")
            => wk[v].sess # wk[w].sess

\* C27: a batch is given to a worker only while it is queued, and never
\* to two workers; a file is handed to the send operations once, the
\* document fallback of its video operation apart
C27_OneWorkerPerBatch ==
    [][/\ \A w \in Workers :
            (wk'[w].b # wk[w].b /\ wk'[w].b # 0)
                => /\ fut_state[wk'[w].b] = "queued"
                   /\ \A v \in Workers \ {w} : wk'[v].b # wk'[w].b
       /\ \A f \in Names :
            /\ Occurrences(ops'[f], "group") + Occurrences(ops'[f], "photo")
                  + Occurrences(ops'[f], "video") <= 1
            /\ Occurrences(ops'[f], "document") <= 1
            /\ Len(ops'[f]) = 2 => ops'[f] = <<"video", "document">>]_vars

\* two workers hold the two batches of the plan, each file handed out once
C27_Witness ==
    /\ wk[1].pc = "request" /\ wk[2].pc = "request"
    /\ wk[1].b # 0 /\ wk[2].b # 0 /\ wk[1].b # wk[2].b
    /\ \A f \in Names : Len(ops[f]) = 1

\* C28: when every pool thread has finished, the shared counter is its
\* initial value plus the number of increments performed, and at no time
\* have two per-file progress events reported the same sent value
C28_NoLostIncrement ==
    /\ (next_batch > Len(batches) /\ \A w \in Workers : inc[w].pc = "ready")
           => files_sent_shared = files_sent + increments
    /\ \A j, k \in 1..Len(events) : j # k => events[j] # events[k]

\* two threads have counted four files, and a later increment was
\* reported before an earlier one
C28_Witness ==
    /\ max_workers >= 2 /\ increments >= 4
    /\ next_batch > Len(batches) /\ \A w \in Workers : inc[w].pc = "ready"
    /\ \E j \in 1..(Len(events) - 1) : events[j] > events[j + 1]

\* C29: the sent value of a per-file progress event is the number of
\* files the remote has accepted so far
C29_SentIsDelivered ==
    last_event.by = "worker" => last_event.sent = Cardinality(Delivered)

\* s lists names in the sorted order of the scan
Ascending(s) == \A j, k \in 1..Len(s) : j < k => s[j] < s[k]

\* C30: a worker on file i of its batch has finished the files before it,
\* in the batch's order, and has not started a file after it; a grouped
\* request lists its files in the batch's order
C30_BatchOrder ==
    \A w \in Workers :
        LET batch == batches[wk[w].b]
        IN wk[w].b # 0 =>
              /\ Ascending(batch)
              /\ IF wk[w].pc = "request" /\ wk[w].op = "group"
                 THEN /\ Ascending(wk[w].valid)
                      /\ SeqSet(wk[w].valid) \subseteq SeqSet(batch)
                 ELSE wk[w].pc \in {"single", "request"} =>
                         /\ wk[w].files_processed = SubSeq(batch, 1, wk[w].i - 1)
                         /\ \A k \in (wk[w].i + 1)..Len(batch) :
                                ~Attempted(batch[k])

\* the second file of a batch is being sent individually, the first one
\* is finished
C30_Witness ==
    \E w \in Workers :
        /\ wk[w].pc = "request" /\ wk[w].op # "group" /\ wk[w].i = 2
        /\ wk[w].files_processed = <<batches[wk[w].b][1]>>

\* a grouped request carries both files of its batch
C30_WitnessAlbum ==
    \E w \in Workers :
        /\ wk[w].pc = "request" /\ wk[w].op = "group"
        /\ wk[w].valid = batches[wk[w].b] /\ Len(wk[w].valid) = 2

\* C36: an answer that is no JSON ends the call at once, as an accepted
\* answer does: the call has returned, and neither a backoff sleep nor a
\* second of a rate-limit wait follows it
C36_RawReturnedAtOnce ==
    [][\A w \in Workers :
          (wk[w].pc = "request" /\ wk'[w].last \in {"raw", "ok"}
             /\ wk'[w].attempt = wk[w].attempt + 1)
              => /\ wk'[w].pc = "returned"
                 /\ wk'[w].backoffs = wk[w].backoffs
                 /\ wk'[w].sleep_left = 0]_vars

\* the second attempt of a call got a body that is no JSON, and the call
\* returned with four attempts left
C36_Witness ==
    /\ wk[1].pc = "returned" /\ wk[1].last = "raw"
    /\ wk[1].attempt = 2 /\ wk[1].op # "group" /\ ~stop_event

\* C35: a grouped request carries at least two and at most GROUP_SIZE
\* files
C35_AlbumSize ==
    \A w \in Workers :
        (wk[w].pc = "request" /\ wk[w].op = "group")
            => (Len(wk[w].valid) >= 2 /\ Len(wk[w].valid) <= GROUP_SIZE)

\* C37: every progress event of a run has 0 <= sent <= total
C37_SentWithinTotal ==
    last_event.by # "none"
        => (0 <= last_event.sent /\ last_event.sent <= last_event.total)

\* C38: within one run the sent value of a progress event is never below
\* the sent value of the event before it
C38_SentNeverDecreases ==
    [][(run_no' = run_no /\ cpc' # "killed" /\ last_event.by # "none")
          => last_event'.sent >= last_event.sent]_vars

\* C31: a file that is empty, unreadable or gone when
\* send_single_by_type is called for it gets no request and no retry: the
\* call returns at once, nothing is posted or delivered for it, and the
\* worker goes on with the next file of the batch (or finishes the batch).
C31_FailFastAtSend ==
    [][\A w \in Workers :
          (/\ wk[w].pc = "single" /\ ~stop_event /\ cpc' # "killed"
           /\ folder[batches[wk[w].b][wk[w].i]] \in {"empty", "gone", "unreadable"}
           /\ wk'[w] # wk[w])
              => /\ wk'[w].pc # "request"
                 /\ wk'[w].attempt = 0
                 /\ delivered' = delivered
                 /\ IF wk[w].i < Len(batches[wk[w].b])
                    THEN /\ wk'[w].pc = "single" /\ wk'[w].b = wk[w].b
                         /\ wk'[w].i = wk[w].i + 1
                    ELSE /\ wk'[w].pc = "idle"
                         /\ fut_state'[wk[w].b] = "done"]_vars

\* C31 witness: the first file of a two-file batch was gone at send time
\* and the worker stands before the second file, nothing requested
C31_Witness ==
    /\ wk[1].pc = "single" /\ wk[1].i = 2
    /\ folder[batches[wk[1].b][1]] = "gone"
    /\ ops[batches[wk[1].b][1]] = <<>>
    /\ delivered[batches[wk[1].b][1]] = 0
    /\ ~stop_event

\* the entries a scan has to return: regular files with an image or video
\* extension and content
Qualifying ==
    {f \in Names : /\ folder[f] \in {"ok", "unreadable"}
                   /\ f # 0}

\* C32: the scan returns, in ascending name order, exactly the regular
\* files with a supported extension and a size above zero, and an entry
\* that cannot be stat-ed never makes the scan fail: whenever the folder
\* holds such files the run goes on with exactly that list.
C32_ScanResult ==
    [][(cpc = "start" /\ cpc' # "start" /\ fault = "none"
          /\ Qualifying # {})
          => /\ cpc' = "loop"
             /\ all_media' = SortedSeq(Qualifying)]_vars

\* the record is there and is not a text save_progress writes
Corrupt(pf) ==
    /\ pf.exists
    /\ pf.text \notin {json_dumps(SortedSeq(S)) : S \in SUBSET Names}

\* C33: with resume set and the record absent or corrupt, load_progress
\* gives the empty list and the run proceeds with every scanned file in
\* the remaining set.
C33_CorruptRecordIsEmpty ==
    [][(/\ cpc = "start" /\ cpc' # "start" /\ resume /\ fault = "none"
        /\ get_media_files(folder) # <<>>
        /\ (~progress_file.exists \/ Corrupt(progress_file)))
          => /\ cpc' = "loop"
             /\ uploaded' = <<>>
             /\ remaining' = get_media_files(folder)]_vars

\* the names a record written by save_progress holds
NamesIn(pf) ==
    CHOOSE S \in SUBSET Names : json_dumps(SortedSeq(S)) = pf.text

\* the names the run has to skip: those of a sound record when resume is
\* set, none otherwise
ToSkip ==
    IF resume /\ progress_file.exists /\ ~Corrupt(progress_file)
    THEN NamesIn(progress_file) ELSE {}

\* C34: the run plans exactly the scanned files that the loaded record
\* does not name when resume is set, and every scanned file when it is not
\* (the record is then ignored); a file the loaded record names gets no
\* operation and no delivery in this run.
C34_RemainingSet ==
    /\ [][(cpc = "start" /\ cpc' = "loop")
            => /\ SeqSet(uploaded') = ToSkip
               /\ SeqSet(remaining') = SeqSet(get_media_files(folder)) \ ToSkip
               /\ Ascending(remaining')]_vars
    /\ [](cpc \in {"loop", "got", "shutdown", "done"}
            => \A f \in SeqSet(uploaded) :
                  ops[f] = <<>> /\ delivered[f] = 0)

\* C34 witness: a resumed run whose record named file 1 has ended; file 2
\* was sent and delivered, file 1 was left alone
C34_Witness ==
    /\ resume /\ cpc = "done" /\ done_calls = <<TRUE>>
    /\ uploaded = <<1>> /\ remaining = <<2>>
    /\ ops[1] = <<>> /\ ops[2] # <<>> /\ delivered[2] = 1

\* C39: every run ends with its terminal event, whatever the remote
\* answers and whether or not the stop signal is set.
C39_RunTerminates == <>(cpc = "done" /\ done_calls # <<>>)

\* C39 witness: a run has ended without a stop signal after the remote
\* rate-limited every attempt for every file
C39_Witness ==
    /\ cpc = "done" /\ done_calls # <<>> /\ ~stop_event
    /\ remote_mode = "limit"
    /\ \A f \in Names : ops[f] # <<>> /\ delivered[f] = 0

\* C40: at most one UploadWorker of the App is sending at any time, and a
\* Start Upload that comes while a worker is sending starts no second
\* worker and leaves a pending stop signal set.
C40_OneWorkerAtATime ==
    /\ [](Len(sending) <= 1)
    /\ [][(sending # <<>> /\ Len(sending') >= Len(sending)
            /\ multi_mode' = multi_mode /\ stop_event)
               => (stop_event' /\ sending' = sending)]_vars

====
